---- MODULE Spec2Model ----
(***************************************************************************)
(* A model of easytcp's Session (session.go: the two I/O loops, the two    *)
(* bounded queues and the once-guarded Close) and of its Router            *)
(* (router.go: the registry, the dispatch loop and the per-request tasks). *)
(*                                                                         *)
(* Go channels are modelled by what the runtime does: a send on a closed   *)
(* channel panics, a send on an open channel is buffered while there is    *)
(* room or handed to a receiver that waits, and blocks otherwise; a        *)
(* receive takes the head of the buffer, also after close, and reports     *)
(* "closed" only on an empty closed channel; close of a closed channel     *)
(* panics.  A goroutine that is blocked is a process whose step is not     *)
(* enabled.                                                                *)
(***************************************************************************)
EXTENDS Naturals, Sequences, FiniteSets

\* ---------------------------------------------------------------- bounds
NumClosers == 1
NumSenders == 2
NumWaiters == 1
MaxReads == 2
MaxBuf == 2
MaxRequests == 2
MaxGlobals == 3
NumStoppers == 2

\* The message IDs requests carry and handlers are registered for.
MsgIDs == {1, 2}
Requests == 1..MaxRequests

\* Two sessions: a request's own session and another one.
Sessions == {1, 2}
\* The session whose loops, producers and consumer run in Spec.
Served == 1

VARIABLES
    opt,           \* the SessionOption: [ReadBufferSize, WriteBufferSize]
    closed,        \* s.closed: TRUE once close(s.closed) ran
    reqQueue,      \* s.reqQueue: [buf, closed, cap]
    respQueue,     \* s.respQueue: [buf, closed, cap]
    closeOnce,     \* s.closeOnce: "fresh", "running" or "done"
    conn,          \* s.conn: [unpacked: frames read so far, written: frames written]
    readTimeout,   \* ReadLoop's parameter
    writeTimeout,  \* WriteLoop's parameter
    pc,            \* where each goroutine stands
    msg,           \* the entry a goroutine holds (entry, respMsg)
    ret,           \* what a goroutine's last call returned
    closeRuns,     \* how often the function given to closeOnce.Do has started
    unpackCalls,   \* how often ReadLoop has called packer.Unpack
    delivered,     \* what the consumer of RecvReq() has received, in order
    enqueued       \* what safelyPushRespQueue has put on respQueue, in order

VARIABLES
    handlerMapper,      \* r.handlerMapper: message ID -> handler, Nil when absent
    middlewaresMapper,  \* r.middlewaresMapper: message ID -> middlewares, <<>> when absent
    globalMiddlewares,  \* r.globalMiddlewares: [array: the backing array, len]
    notFoundHandler,    \* r.notFoundHandler, Nil when unset
    reqCtxQueue,        \* r.reqCtxQueue: [buf, closed, cap], of request numbers
    stopped,            \* r.stopped: TRUE once close(r.stopped) ran
    reqCtx,             \* the request contexts fed so far: [session, reqMsg]
    handler,            \* handleRequest's handler, per request
    mws,                \* handleRequest's mws, per request: [shared, len, own]
    trace               \* what the wrapped handler of a request has executed

sessionVars == <<opt, closed, reqQueue, respQueue, closeOnce, conn, readTimeout,
                 writeTimeout, closeRuns, unpackCalls, delivered, enqueued>>
routerVars == <<handlerMapper, middlewaresMapper, globalMiddlewares, notFoundHandler,
                reqCtxQueue, stopped, reqCtx, handler, mws, trace>>
vars == <<sessionVars, routerVars, pc, msg, ret>>

\* ------------------------------------------------------------- goroutines
ReadLoopOf(s) == <<"ReadLoop", s, 0>>
WriteLoopOf(s) == <<"WriteLoop", s, 0>>
RecvReqOf(s) == <<"RecvReq", s, 0>>
Closers == {<<"Close", s, i>> : s \in Sessions, i \in 1..NumClosers}
Senders == {<<"SendResp", s, i>> : s \in Sessions, i \in 1..NumSenders}
Waiters == {<<"WaitUntilClosed", s, i>> : s \in Sessions, i \in 1..NumWaiters}
Loops == {ReadLoopOf(s) : s \in Sessions} \cup {WriteLoopOf(s) : s \in Sessions}
Consumers == {RecvReqOf(s) : s \in Sessions}
Dispatcher == <<"consumeRequest", 0, 0>>
TaskOf(r) == <<"task", 0, r>>
Tasks == {TaskOf(r) : r \in Requests}
Stoppers == {<<"stop", 0, i>> : i \in 1..NumStoppers}
Procs == Loops \cup Consumers \cup Closers \cup Senders \cup Waiters
         \cup {Dispatcher} \cup Tasks \cup Stoppers

Sess(p) == p[2]

\* --------------------------------------------------------------- channels
MakeChan(size) == [buf |-> <<>>, closed |-> FALSE, cap |-> size]

\* What a send does: runtime.chansend.
ChanSend(ch, receiverWaits) ==
    IF ch.closed THEN {"panic"}
    ELSE (IF receiverWaits /\ ch.buf = <<>> THEN {"handoff"} ELSE {})
         \cup (IF Len(ch.buf) < ch.cap THEN {"buffer"} ELSE {})

\* A receive that looks for the close before the buffer.
ChanRecvClosedFirst(ch) ==
    IF ch.closed THEN "closed"
    ELSE IF ch.buf # <<>> THEN "value"
    ELSE "block"

\* What a receive does: runtime.chanrecv. A buffered value first, also on a
\* closed channel; else ok = false when closed; else it waits.
ChanRecv(ch) ==
    IF ch.buf # <<>> THEN "value"
    ELSE IF ch.closed THEN "closed"
    ELSE "block"

\* --------------------------------------------------------------- NewSession
\* make(chan *message.Entry, size + 1) for both queues.
NewSessionOffByOne(readSize, writeSize) ==
    /\ opt = [ReadBufferSize |-> readSize, WriteBufferSize |-> writeSize]
    /\ closed = [s \in Sessions |-> FALSE]
    /\ reqQueue = [s \in Sessions |-> MakeChan(readSize + 1)]
    /\ respQueue = [s \in Sessions |-> MakeChan(writeSize + 1)]
    /\ closeOnce = [s \in Sessions |-> "fresh"]
    /\ conn = [s \in Sessions |-> [unpacked |-> 0, written |-> <<>>]]

NewSession(readSize, writeSize) ==
    /\ opt = [ReadBufferSize |-> readSize, WriteBufferSize |-> writeSize]
    /\ closed = [s \in Sessions |-> FALSE]
    /\ reqQueue = [s \in Sessions |-> MakeChan(readSize)]
    /\ respQueue = [s \in Sessions |-> MakeChan(writeSize)]
    /\ closeOnce = [s \in Sessions |-> "fresh"]
    /\ conn = [s \in Sessions |-> [unpacked |-> 0, written |-> <<>>]]

InitPc(p) ==
    CASE p[1] = "ReadLoop" -> "Unpack"
      [] p[1] = "WriteLoop" -> "Recv"
      [] p[1] = "RecvReq" -> "Recv"
      [] p[1] = "Close" -> "Close"
      [] p[1] = "SendResp" -> "Push"
      [] p[1] = "WaitUntilClosed" -> "Wait"
      [] p[1] = "consumeRequest" -> "setup"
      [] p[1] = "task" -> "idle"
      [] p[1] = "stop" -> "stop"

\* The values of the registry: handlers and middlewares are opaque functions.
Nil == <<"nil", 0, 0>>
nilHandler == <<"nilHandler", 0, 0>>
NotFound == <<"notFoundHandler", 0, 0>>
HandlerOf(id) == <<"handler", id, 0>>
Global(i) == <<"global", i, 0>>
PerID(id, j) == <<"perID", id, j>>

\* newRouter(queueSize): a router with an empty registry.
newRouter(queueSize) ==
    /\ handlerMapper = [id \in MsgIDs |-> Nil]
    /\ middlewaresMapper = [id \in MsgIDs |-> <<>>]
    /\ globalMiddlewares = [array |-> <<>>, len |-> 0]
    /\ notFoundHandler = Nil
    /\ reqCtxQueue = MakeChan(queueSize)
    /\ stopped = FALSE

InitGoroutines ==
    /\ pc = [p \in Procs |-> InitPc(p)]
    /\ msg = [p \in Procs |-> IF p[1] = "SendResp" THEN p[3] ELSE 0]
    /\ ret = [p \in Procs |-> "none"]
    /\ closeRuns = [s \in Sessions |-> 0]
    /\ unpackCalls = [s \in Sessions |-> 0]
    /\ delivered = [s \in Sessions |-> <<>>]
    /\ enqueued = [s \in Sessions |-> <<>>]
    /\ reqCtx = [r \in Requests |-> [session |-> 0, reqMsg |-> 0]]
    /\ handler = [r \in Requests |-> Nil]
    /\ mws = [r \in Requests |-> [shared |-> TRUE, len |-> 0, own |-> <<>>]]
    /\ trace = [r \in Requests |-> <<>>]

Init ==
    /\ \E size \in 0..MaxBuf : NewSession(size, size)
    /\ \E timeout \in {0, 1} : readTimeout = timeout /\ writeTimeout = timeout
    /\ newRouter(0)
    /\ InitGoroutines


\* -------------------------------------------------------------------- Close
\* Close without the sync.Once: every caller runs the closing function.
OnceDoUnguarded(once) == "run"

\* closeOnce.Do(f): the first caller runs f, a caller that arrives while f runs
\* waits for it, a caller that arrives after f has returned returns at once.
OnceDo(once) ==
    CASE once = "fresh" -> "run"
      [] once = "running" -> "wait"
      [] once = "done" -> "skip"

\* A closing function that does not fire the signal.
CloseFirstSkipsSignal == "closeReqQueue"

\* The first statement of the function given to closeOnce.Do: close(s.closed).
CloseFirst == "closeClosed"

\* Close(), up to the first statement of the function given to closeOnce.Do.
CloseDo(p) ==
    /\ pc[p] = "Close"
    /\ LET s == Sess(p) IN
       \/ /\ OnceDo(closeOnce[s]) = "run"
          /\ closeOnce' = [closeOnce EXCEPT ![s] = "running"]
          /\ closeRuns' = [closeRuns EXCEPT ![s] = @ + 1]
          /\ pc' = [pc EXCEPT ![p] = CloseFirst]
       \/ /\ OnceDo(closeOnce[s]) = "skip"
          /\ pc' = [pc EXCEPT ![p] = "done"]
          /\ UNCHANGED <<closeOnce, closeRuns>>
    /\ UNCHANGED <<routerVars, closed, reqQueue, respQueue, conn, opt, readTimeout, writeTimeout,
                   msg, ret, unpackCalls, delivered, enqueued>>

\* close(s.closed)
CloseClosed(p) ==
    /\ pc[p] = "closeClosed"
    /\ LET s == Sess(p) IN
       IF closed[s]
       THEN /\ pc' = [pc EXCEPT ![p] = "panic"]
            /\ UNCHANGED closed
       ELSE /\ closed' = [closed EXCEPT ![s] = TRUE]
            /\ pc' = [pc EXCEPT ![p] = "closeReqQueue"]
    /\ UNCHANGED <<routerVars, reqQueue, respQueue, closeOnce, conn, opt, readTimeout, writeTimeout,
                   msg, ret, closeRuns, unpackCalls, delivered, enqueued>>

\* close(s.reqQueue)
CloseReqQueue(p) ==
    /\ pc[p] = "closeReqQueue"
    /\ LET s == Sess(p) IN
       IF reqQueue[s].closed
       THEN /\ pc' = [pc EXCEPT ![p] = "panic"]
            /\ UNCHANGED reqQueue
       ELSE /\ reqQueue' = [reqQueue EXCEPT ![s].closed = TRUE]
            /\ pc' = [pc EXCEPT ![p] = "closeRespQueue"]
    /\ UNCHANGED <<routerVars, closed, respQueue, closeOnce, conn, opt, readTimeout, writeTimeout,
                   msg, ret, closeRuns, unpackCalls, delivered, enqueued>>

\* close(s.respQueue), and the return of closeOnce.Do and of Close.
CloseRespQueue(p) ==
    /\ pc[p] = "closeRespQueue"
    /\ LET s == Sess(p) IN
       IF respQueue[s].closed
       THEN /\ pc' = [pc EXCEPT ![p] = "panic"]
            /\ UNCHANGED <<respQueue, closeOnce>>
       ELSE /\ respQueue' = [respQueue EXCEPT ![s].closed = TRUE]
            /\ closeOnce' = [closeOnce EXCEPT ![s] = "done"]
            /\ pc' = [pc EXCEPT ![p] = "done"]
    /\ UNCHANGED <<routerVars, closed, reqQueue, conn, opt, readTimeout, writeTimeout,
                   msg, ret, closeRuns, unpackCalls, delivered, enqueued>>

\* ---------------------------------------------------------- WaitUntilClosed
WaitUntilClosed(p) ==
    /\ pc[p] = "Wait"
    /\ closed[Sess(p)]
    /\ pc' = [pc EXCEPT ![p] = "done"]
    /\ UNCHANGED <<routerVars, closed, reqQueue, respQueue, closeOnce, conn, opt, readTimeout,
                   writeTimeout, msg, ret, closeRuns, unpackCalls, delivered, enqueued>>

\* ------------------------------------------------------------------ ReadLoop
\* The deferred recover of safelyPushReqQueue: a panicking send returns ok = false.
safelyPushReqQueue(outcome) ==
    IF outcome = "panic" THEN "false" ELSE "true"

\* One iteration up to the push, when nothing fails: SetReadDeadline (when
\* readTimeout > 0) and Unpack. The connection yields the frames 1, 2, ...
ReadLoopUnpack(s) ==
    LET p == ReadLoopOf(s) IN
    /\ pc[p] = "Unpack"
    /\ conn[s].unpacked < MaxReads
    /\ unpackCalls' = [unpackCalls EXCEPT ![s] = @ + 1]
    /\ conn' = [conn EXCEPT ![s].unpacked = @ + 1]
    /\ msg' = [msg EXCEPT ![p] = conn[s].unpacked + 1]
    /\ pc' = [pc EXCEPT ![p] = "Push"]
    /\ UNCHANGED <<routerVars, closed, reqQueue, respQueue, closeOnce, opt, readTimeout, writeTimeout,
                   ret, closeRuns, delivered, enqueued>>

\* return instead of break.
UnpackErrorReturn == "done"

\* continue instead of break.
UnpackErrorContinue == "Unpack"

\* Where the loop goes when Unpack returns an error: break.
UnpackError == "Close"

\* The same iteration when SetReadDeadline fails (only armed when readTimeout > 0)
\* or Unpack returns an error: break.
ReadLoopBreak(s) ==
    LET p == ReadLoopOf(s) IN
    /\ pc[p] = "Unpack"
    /\ \/ /\ readTimeout > 0
          /\ pc' = [pc EXCEPT ![p] = "Close"]
          /\ ret' = [ret EXCEPT ![p] = "deadline"]
          /\ UNCHANGED unpackCalls
       \/ /\ unpackCalls' = [unpackCalls EXCEPT ![s] = @ + 1]
          /\ pc' = [pc EXCEPT ![p] = UnpackError]
          /\ ret' = [ret EXCEPT ![p] = "unpack"]
    /\ UNCHANGED <<routerVars, closed, reqQueue, respQueue, closeOnce, conn, opt, readTimeout, writeTimeout,
                   msg, closeRuns, delivered, enqueued>>

\* s.safelyPushReqQueue(entry), and the loop's break when it returns false.
ReadLoopPush(s) ==
    LET p == ReadLoopOf(s) IN
    /\ pc[p] = "Push"
    /\ \E o \in ChanSend(reqQueue[s], pc[RecvReqOf(s)] = "Recv") :
       IF safelyPushReqQueue(o) = "false"
       THEN /\ pc' = [pc EXCEPT ![p] = "Close"]
            /\ ret' = [ret EXCEPT ![p] = "queueClosed"]
            /\ UNCHANGED <<reqQueue, delivered>>
       ELSE IF o = "panic"
       THEN /\ pc' = [pc EXCEPT ![p] = "panic"]
            /\ UNCHANGED <<reqQueue, delivered, ret>>
       ELSE /\ pc' = [pc EXCEPT ![p] = "Unpack"]
            /\ IF o = "buffer"
               THEN /\ reqQueue' = [reqQueue EXCEPT ![s].buf = Append(@, msg[p])]
                    /\ UNCHANGED delivered
               ELSE /\ delivered' = [delivered EXCEPT ![s] = Append(@, msg[p])]
                    /\ UNCHANGED reqQueue
            /\ UNCHANGED ret
    /\ msg' = [msg EXCEPT ![ReadLoopOf(s)] = 0]
    /\ UNCHANGED <<routerVars, closed, respQueue, closeOnce, conn, opt, readTimeout, writeTimeout,
                   closeRuns, unpackCalls, enqueued>>

\* The consumer of RecvReq(): for entry := range sess.RecvReq().
RecvReq(s) ==
    LET p == RecvReqOf(s) IN
    /\ pc[p] = "Recv"
    /\ \/ /\ ChanRecv(reqQueue[s]) = "value"
          /\ delivered' = [delivered EXCEPT ![s] = Append(@, Head(reqQueue[s].buf))]
          /\ reqQueue' = [reqQueue EXCEPT ![s].buf = Tail(@)]
          /\ UNCHANGED pc
       \/ /\ ChanRecv(reqQueue[s]) = "closed"
          /\ pc' = [pc EXCEPT ![p] = "done"]
          /\ UNCHANGED <<delivered, reqQueue>>
    /\ UNCHANGED <<routerVars, closed, respQueue, closeOnce, conn, opt, readTimeout, writeTimeout,
                   msg, ret, closeRuns, unpackCalls, enqueued>>

\* ----------------------------------------------------------------- WriteLoop
\* A receive that takes the newest entry.
DequeueNewest(buf) == [value |-> buf[Len(buf)], rest |-> SubSeq(buf, 1, Len(buf) - 1)]

\* Which entry of the buffered queue a receive takes: the oldest.
Dequeue(buf) == [value |-> Head(buf), rest |-> Tail(buf)]

\* respMsg, ok := <-s.respQueue
WriteLoopRecv(s) ==
    LET p == WriteLoopOf(s) IN
    /\ pc[p] = "Recv"
    /\ \/ /\ ChanRecv(respQueue[s]) = "value"
          /\ msg' = [msg EXCEPT ![p] = Dequeue(respQueue[s].buf).value]
          /\ respQueue' = [respQueue EXCEPT ![s].buf = Dequeue(respQueue[s].buf).rest]
          /\ pc' = [pc EXCEPT ![p] = "Pack"]
          /\ UNCHANGED ret
       \/ /\ ChanRecv(respQueue[s]) = "closed"
          /\ pc' = [pc EXCEPT ![p] = "Close"]
          /\ ret' = [ret EXCEPT ![p] = "queueClosed"]
          /\ UNCHANGED <<msg, respQueue>>
    /\ UNCHANGED <<routerVars, closed, reqQueue, closeOnce, conn, opt, readTimeout, writeTimeout,
                   closeRuns, unpackCalls, delivered, enqueued>>

\* break instead of continue.
PackErrorBreak == "Close"

\* Where the loop goes when Pack returns an error: continue.
PackError == "Recv"

\* ackMsg, err := s.packer.Pack(respMsg); a pack error continues the loop.
WriteLoopPack(s) ==
    LET p == WriteLoopOf(s) IN
    /\ pc[p] = "Pack"
    /\ \/ /\ pc' = [pc EXCEPT ![p] = "Write"]
          /\ UNCHANGED msg
       \/ /\ pc' = [pc EXCEPT ![p] = PackError]
          /\ msg' = [msg EXCEPT ![p] = 0]
    /\ UNCHANGED <<routerVars, closed, reqQueue, respQueue, closeOnce, conn, opt, readTimeout,
                   writeTimeout, ret, closeRuns, unpackCalls, delivered, enqueued>>

\* SetWriteDeadline (when writeTimeout > 0) and s.conn.Write(ackMsg).
WriteLoopWrite(s) ==
    LET p == WriteLoopOf(s) IN
    /\ pc[p] = "Write"
    /\ \/ /\ writeTimeout > 0
          /\ pc' = [pc EXCEPT ![p] = "Close"]
          /\ ret' = [ret EXCEPT ![p] = "deadline"]
          /\ UNCHANGED conn
       \/ /\ conn' = [conn EXCEPT ![s].written = Append(@, msg[p])]
          /\ pc' = [pc EXCEPT ![p] = "Recv"]
          /\ UNCHANGED ret
       \/ /\ pc' = [pc EXCEPT ![p] = "Close"]
          /\ ret' = [ret EXCEPT ![p] = "write"]
          /\ UNCHANGED conn
    /\ msg' = [msg EXCEPT ![p] = 0]
    /\ UNCHANGED <<routerVars, closed, reqQueue, respQueue, closeOnce, opt, readTimeout, writeTimeout,
                   closeRuns, unpackCalls, delivered, enqueued>>

\* ------------------------------------------------------------------ SendResp
\* safelyPushRespQueue without the deferred recover.
safelyPushRespQueueNoRecover(outcome) == "true"

\* The deferred recover of safelyPushRespQueue: a panicking send returns ok = false.
safelyPushRespQueue(outcome) ==
    IF outcome = "panic" THEN "false" ELSE "true"

\* Where a send puts the entry in the buffered queue: at the end.
Enqueue(buf, e) == Append(buf, e)

\* SendResp(respMsg) by goroutine p on session s: the send of safelyPushRespQueue
\* and the error SendResp makes of ok = false.
SendResp(p, s) ==
    /\ pc[p] = "Push"
    /\ \E o \in ChanSend(respQueue[s], pc[WriteLoopOf(s)] = "Recv") :
       IF safelyPushRespQueue(o) = "false"
       THEN /\ pc' = [pc EXCEPT ![p] = "done"]
            /\ ret' = [ret EXCEPT ![p] = "err"]
            /\ UNCHANGED <<respQueue, msg, enqueued>>
       ELSE IF o = "panic"
       THEN /\ pc' = [pc EXCEPT ![p] = "panic"]
            /\ UNCHANGED <<respQueue, msg, enqueued, ret>>
       ELSE /\ ret' = [ret EXCEPT ![p] = "nil"]
            /\ enqueued' = [enqueued EXCEPT ![s] = Append(@, msg[p])]
            /\ IF o = "buffer"
               THEN /\ respQueue' = [respQueue EXCEPT ![s].buf = Enqueue(@, msg[p])]
                    /\ pc' = [pc EXCEPT ![p] = "done"]
                    /\ UNCHANGED msg
               ELSE /\ msg' = [msg EXCEPT ![WriteLoopOf(s)] = msg[p]]
                    /\ pc' = [pc EXCEPT ![p] = "done", ![WriteLoopOf(s)] = "Pack"]
                    /\ UNCHANGED respQueue
    /\ UNCHANGED <<routerVars, closed, reqQueue, closeOnce, conn, opt, readTimeout, writeTimeout,
                   closeRuns, unpackCalls, delivered>>

\* -------------------------------------------------------------------- Router
\* append(slice, m) where slice is [array, len]: in place while the backing array
\* has room, else into a new array of twice the capacity (runtime.growslice for
\* small slices of pointers: capacities 1, 2, 4, 8).
GrowCap(cap) == IF cap = 0 THEN 1 ELSE 2 * cap

AppendOne(slice, m) ==
    IF slice.len < Len(slice.array)
    THEN [array |-> [slice.array EXCEPT ![slice.len + 1] = m], len |-> slice.len + 1]
    ELSE [array |-> [i \in 1..GrowCap(Len(slice.array)) |->
                        IF i <= slice.len THEN slice.array[i]
                        ELSE IF i = slice.len + 1 THEN m ELSE Nil],
          len |-> slice.len + 1]

\* The non-nil elements of m, in order.
RECURSIVE NonNil(_)
NonNil(m) ==
    IF m = <<>> THEN <<>>
    ELSE IF Head(m) = Nil THEN NonNil(Tail(m))
    ELSE <<Head(m)>> \o NonNil(Tail(m))

\* register(id, h, m...), before the dispatch loop runs.
register(id, h, m) ==
    /\ pc[Dispatcher] = "setup"
    /\ handlerMapper' = IF h # Nil THEN [handlerMapper EXCEPT ![id] = h] ELSE handlerMapper
    /\ middlewaresMapper' = IF NonNil(m) # <<>>
                            THEN [middlewaresMapper EXCEPT ![id] = NonNil(m)]
                            ELSE middlewaresMapper
    /\ UNCHANGED <<sessionVars, globalMiddlewares, notFoundHandler, reqCtxQueue, stopped,
                   reqCtx, handler, mws, trace, pc, msg, ret>>

\* The loop of registerMiddleware over its arguments.
RECURSIVE AppendGlobals(_, _)
AppendGlobals(slice, m) ==
    IF m = <<>> THEN slice
    ELSE IF Head(m) = Nil THEN AppendGlobals(slice, Tail(m))
    ELSE AppendGlobals(AppendOne(slice, Head(m)), Tail(m))

\* registerMiddleware(m...), before the dispatch loop runs.
registerMiddleware(m) ==
    /\ pc[Dispatcher] = "setup"
    /\ globalMiddlewares' = AppendGlobals(globalMiddlewares, m)
    /\ UNCHANGED <<sessionVars, handlerMapper, middlewaresMapper, notFoundHandler,
                   reqCtxQueue, stopped, reqCtx, handler, mws, trace, pc, msg, ret>>

\* setNotFoundHandler(handler), before the dispatch loop runs.
setNotFoundHandler(h) ==
    /\ pc[Dispatcher] = "setup"
    /\ notFoundHandler' = h
    /\ UNCHANGED <<sessionVars, handlerMapper, middlewaresMapper, globalMiddlewares,
                   reqCtxQueue, stopped, reqCtx, handler, mws, trace, pc, msg, ret>>

\* A stop guarded like Session.Close: a second call does nothing.
stopOnce(p) ==
    /\ pc[p] = "stop"
    /\ stopped' = TRUE
    /\ pc' = [pc EXCEPT ![p] = "done"]
    /\ UNCHANGED <<sessionVars, handlerMapper, middlewaresMapper, globalMiddlewares,
                   notFoundHandler, reqCtxQueue, reqCtx, handler, mws, trace, msg, ret>>

\* stop(): close(r.stopped), which panics on a closed channel.
stop(p) ==
    /\ pc[p] = "stop"
    /\ IF stopped
       THEN /\ pc' = [pc EXCEPT ![p] = "panic"]
            /\ UNCHANGED stopped
       ELSE /\ stopped' = TRUE
            /\ pc' = [pc EXCEPT ![p] = "done"]
    /\ UNCHANGED <<sessionVars, handlerMapper, middlewaresMapper, globalMiddlewares,
                   notFoundHandler, reqCtxQueue, reqCtx, handler, mws, trace, msg, ret>>

\* go r.consumeRequest(): the dispatch loop starts to select.
consumeRequestStart ==
    /\ pc[Dispatcher] = "setup"
    /\ pc' = [pc EXCEPT ![Dispatcher] = "select"]
    /\ UNCHANGED <<sessionVars, routerVars, msg, ret>>

\* A stop branch that returns without closing the pending queue.
consumeRequestStopNoClose ==
    /\ pc[Dispatcher] = "select"
    /\ stopped
    /\ pc' = [pc EXCEPT ![Dispatcher] = "done"]
    /\ UNCHANGED <<sessionVars, handlerMapper, middlewaresMapper, globalMiddlewares,
                   notFoundHandler, reqCtxQueue, stopped, reqCtx, handler, mws, trace, msg, ret>>

\* The select's case <-r.stopped: close the pending queue and return.
consumeRequestStop ==
    /\ pc[Dispatcher] = "select"
    /\ stopped
    /\ IF reqCtxQueue.closed
       THEN /\ pc' = [pc EXCEPT ![Dispatcher] = "panic"]
            /\ UNCHANGED reqCtxQueue
       ELSE /\ reqCtxQueue' = [reqCtxQueue EXCEPT !.closed = TRUE]
            /\ pc' = [pc EXCEPT ![Dispatcher] = "done"]
    /\ UNCHANGED <<sessionVars, handlerMapper, middlewaresMapper, globalMiddlewares,
                   notFoundHandler, stopped, reqCtx, handler, mws, trace, msg, ret>>

\* A loop that calls the handler itself and waits for it.
DispatchSync(r, ctx) ==
    IF closed[ctx.session] \/ ctx.reqMsg = 0
    THEN [pc EXCEPT ![TaskOf(r)] = "skipped"]
    ELSE [pc EXCEPT ![TaskOf(r)] = "handleRequest", ![Dispatcher] = "handling"]

\* A loop that does not look at the session's closed signal.
DispatchNoClosedCheck(r, ctx) ==
    IF ctx.reqMsg = 0
    THEN [pc EXCEPT ![TaskOf(r)] = "skipped"]
    ELSE [pc EXCEPT ![TaskOf(r)] = "handleRequest"]

\* What the loop does with a request context it has received: skip it when its
\* session's closed signal has fired or its message is nil, else go func(){...}().
Dispatch(r, ctx) ==
    IF closed[ctx.session] \/ ctx.reqMsg = 0
    THEN [pc EXCEPT ![TaskOf(r)] = "skipped"]
    ELSE [pc EXCEPT ![TaskOf(r)] = "handleRequest"]

\* The select's case reqCtx, ok := <-r.reqCtxQueue, for a buffered context or a
\* closed queue.
consumeRequestRecv ==
    /\ pc[Dispatcher] = "select"
    /\ \/ /\ ChanRecv(reqCtxQueue) = "value"
          /\ reqCtxQueue' = [reqCtxQueue EXCEPT !.buf = Tail(@)]
          /\ pc' = Dispatch(Head(reqCtxQueue.buf), reqCtx[Head(reqCtxQueue.buf)])
       \/ /\ ChanRecv(reqCtxQueue) = "closed"
          /\ pc' = [pc EXCEPT ![Dispatcher] = "done"]
          /\ UNCHANGED reqCtxQueue
    /\ UNCHANGED <<sessionVars, handlerMapper, middlewaresMapper, globalMiddlewares,
                   notFoundHandler, stopped, reqCtx, handler, mws, trace, msg, ret>>

\* Whoever feeds the router: r.reqCtxQueue <- ctx, for the next request, with a
\* context of session s and message ID id (0: a nil message). The context is
\* buffered, or handed to the dispatch loop when that waits in its select.
Feed(r, s, id) ==
    /\ reqCtx[r].session = 0
    /\ \A q \in Requests : q < r => reqCtx[q].session # 0
    /\ pc[Dispatcher] \in {"select", "done"}
    /\ reqCtx' = [reqCtx EXCEPT ![r] = [session |-> s, reqMsg |-> id]]
    /\ \E o \in ChanSend(reqCtxQueue, pc[Dispatcher] = "select") \ {"panic"} :
          IF o = "buffer"
          THEN /\ reqCtxQueue' = [reqCtxQueue EXCEPT !.buf = Append(@, r)]
               /\ UNCHANGED pc
          ELSE /\ pc' = Dispatch(r, [session |-> s, reqMsg |-> id])
               /\ UNCHANGED reqCtxQueue
    /\ UNCHANGED <<sessionVars, handlerMapper, middlewaresMapper, globalMiddlewares,
                   notFoundHandler, stopped, handler, mws, trace, msg, ret>>

\* An append whose result is stored back: r.globalMiddlewares = append(...).
AppendInPlaceStored(g, v) ==
    [array |-> [i \in 1..Len(g.array) |->
                   IF i > g.len /\ i <= g.len + Len(v) THEN v[i - g.len] ELSE g.array[i]],
     len |-> g.len + Len(v)]

\* r.globalMiddlewares after append(mws, v...) found room in its backing array:
\* the elements after its length are overwritten, the slice itself is not.
AppendInPlace(g, v) ==
    [g EXCEPT !.array = [i \in 1..Len(g.array) |->
         IF i > g.len /\ i <= g.len + Len(v) THEN v[i - g.len] ELSE g.array[i]]]

\* handleRequest up to wrapHandlers: the handler of the message's ID, and
\* mws = append(r.globalMiddlewares, v...), which writes into the global
\* slice's backing array when that has room and into a new array otherwise.
handleRequest(r) ==
    LET id == reqCtx[r].reqMsg
        v == middlewaresMapper[id]
        g == globalMiddlewares
    IN
    /\ pc[TaskOf(r)] = "handleRequest"
    /\ handler' = [handler EXCEPT ![r] = handlerMapper[id]]
    /\ IF v = <<>>
       THEN /\ mws' = [mws EXCEPT ![r] = [shared |-> TRUE, len |-> g.len, own |-> <<>>]]
            /\ UNCHANGED globalMiddlewares
       ELSE IF g.len + Len(v) <= Len(g.array)
       THEN /\ globalMiddlewares' = AppendInPlace(g, v)
            /\ mws' = [mws EXCEPT ![r] = [shared |-> TRUE, len |-> g.len + Len(v), own |-> <<>>]]
       ELSE /\ mws' = [mws EXCEPT ![r] = [shared |-> FALSE, len |-> g.len + Len(v),
                                          own |-> SubSeq(g.array, 1, g.len) \o v]]
            /\ UNCHANGED globalMiddlewares
    /\ pc' = [pc EXCEPT ![TaskOf(r)] = "wrapHandlers"]
    /\ UNCHANGED <<sessionVars, handlerMapper, middlewaresMapper, notFoundHandler,
                   reqCtxQueue, stopped, reqCtx, trace, msg, ret>>

\* The loop of wrapHandlers: for i := len(middles) - 1; i >= 0; i-- { wrapped =
\* middles[i](wrapped) }. A wrapped function is the sequence of its layers, the
\* outermost first and the handler last.
RECURSIVE WrapLoop(_, _, _)
WrapLoop(middles, i, wrapped) ==
    IF i < 1 THEN wrapped
    ELSE WrapLoop(middles, i - 1, <<middles[i]>> \o wrapped)

\* wrapHandlers without its first nil check.
wrapHandlersNoFallback(h, middles) ==
    LET inner == IF h = Nil THEN nilHandler ELSE h
    IN  WrapLoop(middles, Len(middles), <<inner>>)

wrapHandlers(h, middles) ==
    LET found == IF h = Nil THEN notFoundHandler ELSE h
        inner == IF found = Nil THEN nilHandler ELSE found
    IN  WrapLoop(middles, Len(middles), <<inner>>)

\* What calling a wrapped function executes, for middlewares of the documented
\* pattern (return next(ctx)): each layer before its inner call, the handler,
\* and each layer after it, unless the handler never returns.
RECURSIVE Invoke(_, _)
Invoke(wrapped, outcome) ==
    IF Len(wrapped) = 1 THEN << <<"call", wrapped[1]>> >>
    ELSE << <<"before", wrapped[1]>> >> \o Invoke(Tail(wrapped), outcome)
         \o (IF outcome = "hang" THEN <<>> ELSE << <<"after", wrapped[1]>> >>)

\* Handlers among which nilHandler is not a no-op.
OutcomesAny(h) == {"resp", "nil", "err", "both", "hang"}

\* What a handler may do: nilHandler returns (nil, nil); a user's handler returns
\* an entry, nothing, an error, an entry with an error, or never returns.
Outcomes(h) ==
    IF h = nilHandler THEN {"nil"} ELSE {"resp", "nil", "err", "both", "hang"}

\* The response entry of request r.
Resp(r) == 100 + r

\* A task that looks at the entry before the error.
TaskResultEntryFirst(outcome) ==
    IF outcome \in {"resp", "both"} THEN "send"
    ELSE IF outcome = "err" THEN "handleErr"
    ELSE IF outcome = "nil" THEN "noResp"
    ELSE "hung"

\* What the task does with (respEntry, err): return on an error, return on a
\* nil entry, else SendResp; nothing when the handler never returns.
TaskResult(outcome) ==
    IF outcome = "hang" THEN "hung"
    ELSE IF outcome \in {"err", "both"} THEN "handleErr"
    ELSE IF outcome = "nil" THEN "noResp"
    ELSE "send"

\* The rest of handleRequest and of the task: wrapped := r.wrapHandlers(handler,
\* mws), wrapped(ctx), and what the task does with (respEntry, err).
handleWrapped(r, outcome) ==
    LET p == TaskOf(r)
        middles == IF mws[r].shared THEN SubSeq(globalMiddlewares.array, 1, mws[r].len)
                   ELSE mws[r].own
        wrapped == wrapHandlers(handler[r], middles)
    IN
    /\ pc[p] = "wrapHandlers"
    /\ outcome \in Outcomes(wrapped[Len(wrapped)])
    /\ trace' = [trace EXCEPT ![r] = Invoke(wrapped, outcome)]
    /\ CASE TaskResult(outcome) = "hung" ->
                /\ pc' = [pc EXCEPT ![p] = "hung"]
                /\ UNCHANGED <<msg, ret>>
         [] TaskResult(outcome) = "handleErr" ->
                /\ pc' = [pc EXCEPT ![p] = "done"]
                /\ ret' = [ret EXCEPT ![p] = "handleErr"]
                /\ UNCHANGED msg
         [] TaskResult(outcome) = "noResp" ->
                /\ pc' = [pc EXCEPT ![p] = "done"]
                /\ ret' = [ret EXCEPT ![p] = "noResp"]
                /\ UNCHANGED msg
         [] TaskResult(outcome) = "send" ->
                /\ pc' = [pc EXCEPT ![p] = "Push"]
                /\ msg' = [msg EXCEPT ![p] = Resp(r)]
                /\ UNCHANGED ret
    /\ UNCHANGED <<sessionVars, handlerMapper, middlewaresMapper, globalMiddlewares,
                   notFoundHandler, reqCtxQueue, stopped, reqCtx, handler, mws>>

\* ---------------------------------------------------------------------- Spec
\* One session with both loops, a consumer of RecvReq, and callers of SendResp,
\* Close and WaitUntilClosed.
Next ==
    \/ \E p \in Loops \cup Closers : Sess(p) = Served /\ CloseDo(p)
    \/ \E p \in Loops \cup Closers : Sess(p) = Served /\ CloseClosed(p)
    \/ \E p \in Loops \cup Closers : Sess(p) = Served /\ CloseReqQueue(p)
    \/ \E p \in Loops \cup Closers : Sess(p) = Served /\ CloseRespQueue(p)
    \/ \E p \in Waiters : Sess(p) = Served /\ WaitUntilClosed(p)
    \/ ReadLoopUnpack(Served)
    \/ ReadLoopBreak(Served)
    \/ ReadLoopPush(Served)
    \/ RecvReq(Served)
    \/ WriteLoopRecv(Served)
    \/ WriteLoopPack(Served)
    \/ WriteLoopWrite(Served)
    \/ \E p \in Senders : Sess(p) = Served /\ SendResp(p, Served)

Spec == Init /\ [][Next]_vars

\* The same session when nobody calls SendResp: the write loop only waits.
ReadNext ==
    \/ \E p \in Loops \cup Closers : Sess(p) = Served /\ CloseDo(p)
    \/ \E p \in Loops \cup Closers : Sess(p) = Served /\ CloseClosed(p)
    \/ \E p \in Loops \cup Closers : Sess(p) = Served /\ CloseReqQueue(p)
    \/ \E p \in Loops \cup Closers : Sess(p) = Served /\ CloseRespQueue(p)
    \/ ReadLoopUnpack(Served)
    \/ ReadLoopBreak(Served)
    \/ ReadLoopPush(Served)
    \/ RecvReq(Served)
    \/ WriteLoopRecv(Served)

ReadSpec == Init /\ [][ReadNext]_vars

\* The same session when the peer sends no frame: the read loop only fails.
WriteNext ==
    \/ \E p \in Loops \cup Closers : Sess(p) = Served /\ CloseDo(p)
    \/ \E p \in Loops \cup Closers : Sess(p) = Served /\ CloseClosed(p)
    \/ \E p \in Loops \cup Closers : Sess(p) = Served /\ CloseReqQueue(p)
    \/ \E p \in Loops \cup Closers : Sess(p) = Served /\ CloseRespQueue(p)
    \/ ReadLoopBreak(Served)
    \/ WriteLoopRecv(Served)
    \/ WriteLoopPack(Served)
    \/ WriteLoopWrite(Served)
    \/ \E p \in Senders : Sess(p) = Served /\ SendResp(p, Served)

WriteSpec == Init /\ [][WriteNext]_vars


\* What the Go scheduler guarantees: a goroutine that can run does run. A
\* connection read or write returns for certain only when a deadline is armed;
\* when a caller of Close or SendResp makes its call is up to the caller.
Fairness ==
    /\ \A p \in Loops : WF_vars(Sess(p) = Served /\ CloseDo(p))
    /\ \A p \in Loops \cup Closers :
          /\ WF_vars(Sess(p) = Served /\ CloseClosed(p))
          /\ WF_vars(Sess(p) = Served /\ CloseReqQueue(p))
          /\ WF_vars(Sess(p) = Served /\ CloseRespQueue(p))
    /\ \A p \in Waiters : WF_vars(Sess(p) = Served /\ WaitUntilClosed(p))
    /\ WF_vars(ReadLoopPush(Served))
    /\ WF_vars(RecvReq(Served))
    /\ WF_vars(WriteLoopRecv(Served))
    /\ WF_vars(WriteLoopPack(Served))
    /\ WF_vars(readTimeout > 0 /\ (ReadLoopUnpack(Served) \/ ReadLoopBreak(Served)))
    /\ WF_vars(writeTimeout > 0 /\ WriteLoopWrite(Served))

FairSpec == Spec /\ Fairness

\* The callers of Close and of WaitUntilClosed alone: external callers, the read
\* loop when its connection fails, the write loop when it finds its queue closed.
CloseNext ==
    \/ \E p \in Loops \cup Closers : Sess(p) = Served /\ CloseDo(p)
    \/ \E p \in Loops \cup Closers : Sess(p) = Served /\ CloseClosed(p)
    \/ \E p \in Loops \cup Closers : Sess(p) = Served /\ CloseReqQueue(p)
    \/ \E p \in Loops \cup Closers : Sess(p) = Served /\ CloseRespQueue(p)
    \/ \E p \in Waiters : Sess(p) = Served /\ WaitUntilClosed(p)
    \/ ReadLoopBreak(Served)
    \/ WriteLoopRecv(Served)

CloseSpec == Init /\ [][CloseNext]_vars /\ Fairness


\* ------------------------------------------------------------------- claims
CloseCallers(s) == {p \in Loops \cup Closers : Sess(p) = s}
CloseReturned(s) == \E p \in CloseCallers(s) : pc[p] = "done"
AllClosed(s) == closed[s] /\ reqQueue[s].closed /\ respQueue[s].closed
SendersOf(s) == {p \in Senders : Sess(p) = s}
Count(seq, e) == Cardinality({i \in 1..Len(seq) : seq[i] = e})
UpTo(n) == [i \in 1..n |-> i]

RECURSIVE IsSubseq(_, _)
IsSubseq(a, b) ==
    IF a = <<>> THEN TRUE
    ELSE IF b = <<>> THEN FALSE
    ELSE IF Head(a) = Head(b) THEN IsSubseq(Tail(a), Tail(b))
    ELSE IsSubseq(a, Tail(b))

\* C1: however many goroutines call Close on a session, the function given to
\* closeOnce.Do starts at most once, no call panics on a closed channel, a Close
\* that has returned leaves the signal fired and both queues closed after exactly
\* one run, and once a Close has begun every WaitUntilClosed caller returns.
C1_CloseOnce ==
    /\ [](\A s \in Sessions :
            /\ closeRuns[s] <= 1
            /\ \A p \in CloseCallers(s) : pc[p] # "panic"
            /\ CloseReturned(s) => closeRuns[s] = 1 /\ AllClosed(s))
    /\ \A p \in Waiters :
          (Sess(p) = Served /\ closeRuns[Sess(p)] > 0) ~> (pc[p] = "done")

\* Every caller of Close has returned and every waiter has returned.
C1_Witness ==
    /\ \A p \in CloseCallers(Served) : pc[p] = "done"
    /\ \A p \in Waiters : Sess(p) = Served => pc[p] = "done"
    /\ closeRuns[Served] = 1

\* C2: a SendResp that completes after some Close() on its session has returned
\* returns an error, leaves the outbound queue as it was, and no SendResp ever
\* ends in an unrecovered panic.
C2_SendAfterClose ==
    /\ [](\A p \in Senders : pc[p] # "panic")
    /\ [][\A p \in Senders :
            (CloseReturned(Sess(p)) /\ pc[p] = "Push" /\ pc'[p] # "Push")
            => /\ pc'[p] = "done"
               /\ ret'[p] = "err"
               /\ respQueue' = respQueue
               /\ enqueued' = enqueued
               /\ msg' = msg]_vars

\* A SendResp has failed on a session whose Close has returned.
C2_Witness ==
    \E p \in SendersOf(Served) :
        pc[p] = "done" /\ ret[p] = "err" /\ CloseReturned(Served)

\* C3: once the session is closed, both loops eventually exit.
C3_LoopsExit ==
    \A p \in Loops : (Sess(p) = Served /\ closed[Served]) ~> (pc[p] = "done")

\* C4: what the consumer has received and what is still buffered are, in arrival
\* order, the frames unpacked so far; when the N-th Unpack fails the loop calls
\* Unpack no more, exactly the N-1 frames before it are delivered or buffered,
\* and a consumer that has seen the queue end has received all N-1, with the
\* session closed.
C4_ReadLoopDelivery ==
    \A s \in Sessions :
        LET p == ReadLoopOf(s)
            pending == IF pc[p] = "Push" THEN <<msg[p]>> ELSE <<>>
            held == delivered[s] \o reqQueue[s].buf
        IN  /\ ret[p] # "queueClosed" => held \o pending = UpTo(conn[s].unpacked)
            /\ IsSubseq(held, UpTo(conn[s].unpacked))
            /\ ret[p] = "unpack"
               => /\ unpackCalls[s] = conn[s].unpacked + 1
                  /\ held = UpTo(unpackCalls[s] - 1)
            /\ pc[RecvReqOf(s)] = "done"
               => /\ reqQueue[s].closed /\ reqQueue[s].buf = <<>> /\ closed[s]
                  /\ ret[p] = "unpack" => delivered[s] = UpTo(unpackCalls[s] - 1)

\* The third Unpack failed, both frames before it reached the consumer, which
\* then saw the queue end.
C4_Witness ==
    /\ ret[ReadLoopOf(Served)] = "unpack"
    /\ unpackCalls[Served] = 3
    /\ delivered[Served] = <<1, 2>>
    /\ pc[RecvReqOf(Served)] = "done"
    /\ pc[ReadLoopOf(Served)] = "done"

\* C5: the outbound queue never holds more than WriteBufferSize entries; a
\* SendResp returns success only in a step that finds room in the queue or hands
\* the entry to the waiting write loop, and that step puts the entry on the queue
\* once; it returns an error only when the queue is closed.
C5_Backpressure ==
    /\ [](\A s \in Sessions :
            /\ Len(respQueue[s].buf) <= opt.WriteBufferSize
            /\ \A p \in SendersOf(s) :
                  Count(enqueued[s], msg[p]) = (IF ret[p] = "nil" THEN 1 ELSE 0))
    /\ [][\A p \in Senders :
            LET s == Sess(p) w == WriteLoopOf(s) IN
            /\ (pc[p] = "Push" /\ ret'[p] = "nil")
               => \/ /\ Len(respQueue[s].buf) < opt.WriteBufferSize
                     /\ respQueue'[s].buf = Append(respQueue[s].buf, msg[p])
                  \/ /\ respQueue[s].buf = <<>> /\ pc[w] = "Recv"
                     /\ pc'[w] = "Pack" /\ msg'[w] = msg[p]
                     /\ respQueue' = respQueue
            /\ (pc[p] = "Push" /\ ret'[p] = "err") => respQueue[s].closed]_vars

\* A queue of capacity 1 is full with the second entry enqueued, after the first
\* was taken by the write loop.
C5_Witness ==
    /\ opt.WriteBufferSize = 1
    /\ Len(respQueue[Served].buf) = 1
    /\ Len(enqueued[Served]) = 2
    /\ \A p \in SendersOf(Served) : p[3] <= 2 => ret[p] = "nil"

\* C10: the entries written to the connection are, in order and without
\* repetition, entries enqueued by SendResp; the write order is the enqueue order.
C10_WriteOrder ==
    \A s \in Sessions :
        /\ IsSubseq(conn[s].written, enqueued[s])
        /\ \A e \in 1..NumSenders : Count(conn[s].written, e) <= 1

\* Two entries were enqueued by concurrent producers, the later producer first,
\* and written in that order.
C10_Witness ==
    /\ enqueued[Served] = <<2, 1>>
    /\ conn[Served].written = <<2, 1>>


\* ---------------------------------------------------------------- RouterSpec
\* The registry a setup builds: for each ID its handler or none, with no, one or
\* two middlewares (a nil among them); global middlewares one at a time, up to
\* MaxGlobals; a not-found handler or none.
RegisterArgs(id) ==
    {<<>>, <<PerID(id, 1)>>, <<PerID(id, 1), Nil, PerID(id, 2)>>}

\* A router with any such registry, serving requests of one open session whose
\* outbound queue has room for every response.
HandleNext ==
    \/ \E id \in MsgIDs : \E h \in {Nil, HandlerOf(id)}, m \in RegisterArgs(id) :
          /\ handlerMapper[id] = Nil /\ middlewaresMapper[id] = <<>>
          /\ register(id, h, m)
    \/ /\ globalMiddlewares.len < MaxGlobals
       /\ \E m \in {<<Global(globalMiddlewares.len + 1)>>,
                    <<Nil, Global(globalMiddlewares.len + 1)>>} : registerMiddleware(m)
    \/ /\ notFoundHandler = Nil
       /\ setNotFoundHandler(NotFound)
    \/ consumeRequestStart
    \/ \E r \in Requests, id \in MsgIDs : Feed(r, Served, id)
    \/ \E r \in Requests : handleRequest(r)
    \/ \E r \in Requests, o \in {"resp", "nil", "err"} : handleWrapped(r, o)
    \/ \E r \in Requests : SendResp(TaskOf(r), reqCtx[r].session)

HandleInit ==
    /\ NewSession(MaxBuf, MaxBuf)
    /\ readTimeout = 0 /\ writeTimeout = 0
    /\ newRouter(0)
    /\ InitGoroutines

HandleSpec == HandleInit /\ [][HandleNext]_vars

\* A router whose handlers have no middlewares, serving requests of two open
\* sessions, until it is stopped.
RouterNext ==
    \/ \E id \in MsgIDs : handlerMapper[id] = Nil /\ register(id, HandlerOf(id), <<>>)
    \/ consumeRequestStart
    \/ \E p \in Stoppers : p[3] = 1 /\ stop(p)
    \/ consumeRequestStop
    \/ consumeRequestRecv
    \/ \E r \in Requests, s \in Sessions, id \in MsgIDs \cup {0} : Feed(r, s, id)
    \/ \E r \in Requests : handleRequest(r)
    \/ \E r \in Requests, o \in {"resp", "nil", "err", "both", "hang"} : handleWrapped(r, o)
    \/ \E r \in Requests : SendResp(TaskOf(r), reqCtx[r].session)

RouterInit ==
    /\ NewSession(MaxBuf, MaxBuf)
    /\ readTimeout = 0 /\ writeTimeout = 0
    /\ newRouter(1)
    /\ InitGoroutines

RouterSpec == RouterInit /\ [][RouterNext]_vars

\* ------------------------------------------------------------ router claims
\* The global middlewares, in registration order.
Globals == SubSeq(globalMiddlewares.array, 1, globalMiddlewares.len)

\* The events of an onion of the layers of chain around h, the first layer
\* outermost.
Onion(chain, h) ==
    LET n == Len(chain)
    IN  [i \in 1..(2 * n + 1) |->
            IF i <= n THEN <<"before", chain[i]>>
            ELSE IF i = n + 1 THEN <<"call", h>>
            ELSE <<"after", chain[2 * n + 2 - i]>>]

\* The requests whose handler has been invoked.
Handled == {r \in Requests : trace[r] # <<>>}
IDOf(r) == reqCtx[r].reqMsg
Calls(r) == {i \in 1..Len(trace[r]) : trace[r][i][1] = "call"}

\* C6: a request for a registered ID x runs the onion of the global middlewares
\* followed by the middlewares registered for x, around the handler of x, the
\* first of them outermost and the handler once, innermost.
C6_MiddlewareOrder ==
    \A r \in Handled :
        handlerMapper[IDOf(r)] # Nil
        => trace[r] = Onion(Globals \o middlewaresMapper[IDOf(r)], handlerMapper[IDOf(r)])

\* C7: a request for an ID with no handler, on a router with a not-found
\* handler, calls the not-found handler once, innermost, and never the no-op
\* handler, inside all global middlewares in registration order.
C7_NotFoundFallback ==
    \A r \in Handled :
        (handlerMapper[IDOf(r)] = Nil /\ notFoundHandler # Nil)
        => LET n == Len(trace[r])
               g == Len(Globals)
           IN  /\ Calls(r) = {(n + 1) \div 2}
               /\ trace[r][(n + 1) \div 2] = <<"call", notFoundHandler>>
               /\ n >= 2 * g + 1
               /\ \A i \in 1..g : /\ trace[r][i] = <<"before", Globals[i]>>
                                  /\ trace[r][n + 1 - i] = <<"after", Globals[i]>>

\* A request for an ID without handler went through two global middlewares to
\* the not-found handler.
C7_Witness ==
    \E r \in Handled :
        /\ handlerMapper[IDOf(r)] = Nil
        /\ Len(Globals) = 2
        /\ trace[r] = Onion(Globals, NotFound)

\* C8: a request for an ID with no handler, on a router with no not-found
\* handler, calls the no-op handler, ends without a response and without an
\* error: its task never calls SendResp and its session's outbound queue never
\* gets an entry for it.
C8_NoHandlerNoFallback ==
    \A r \in Requests :
        (reqCtx[r].session # 0 /\ handlerMapper[IDOf(r)] = Nil /\ notFoundHandler = Nil)
        => /\ pc[TaskOf(r)] \in {"idle", "skipped", "handleRequest", "wrapHandlers", "done"}
           /\ \A s \in Sessions : Count(enqueued[s], Resp(r)) = 0
           /\ r \in Handled
              => /\ pc[TaskOf(r)] = "done"
                 /\ ret[TaskOf(r)] = "noResp"
                 /\ Calls(r) = {(Len(trace[r]) + 1) \div 2}
                 /\ trace[r][(Len(trace[r]) + 1) \div 2] = <<"call", nilHandler>>

\* A request for an ID without handler went through a global middleware to the
\* no-op handler while another request got a response.
C8_Witness ==
    \E r \in Handled :
        /\ handlerMapper[IDOf(r)] = Nil
        /\ notFoundHandler = Nil
        /\ trace[r] = Onion(Globals, nilHandler)
        /\ Len(Globals) = 1
        /\ \E q \in Requests : ret[TaskOf(q)] = "nil"

\* The tasks whose handler returned an error or never returned.
Failed == {r \in Requests : pc[TaskOf(r)] = "hung" \/ ret[TaskOf(r)] = "handleErr"}

\* C9: the dispatch loop is back in its select as soon as it has spawned a
\* task, whatever the other tasks do; a spawned task can take its next step
\* whatever state the other tasks are in, a handler that failed or hangs
\* included; and a task that has sent its response has put it, once, on the
\* queue of its own session and of no other.
C9_DispatchIsolation ==
    /\ [](/\ pc[Dispatcher] \in {"setup", "select", "done"}
          /\ \A r \in Requests :
                LET p == TaskOf(r) IN
                /\ pc[p] = "handleRequest" => ENABLED handleRequest(r)
                /\ pc[p] = "wrapHandlers"
                   => \A o \in Outcomes(wrapHandlers(handler[r], <<>>)[1]) :
                         ENABLED handleWrapped(r, o)
                /\ pc[p] = "Push" => ENABLED SendResp(p, reqCtx[r].session)
                /\ (pc[p] = "done" /\ ret[p] = "nil")
                   => \A s \in Sessions :
                         Count(enqueued[s], Resp(r)) = (IF s = reqCtx[r].session THEN 1 ELSE 0))
    /\ [][\A r \in Requests :
            (pc[TaskOf(r)] = "idle" /\ pc'[TaskOf(r)] # "idle")
            => /\ pc'[Dispatcher] = "select"
               /\ \A q \in Requests \ {r} : pc'[TaskOf(q)] = pc[TaskOf(q)]]_vars

\* While the handler of a request hangs, a request for a different ID has had
\* its response sent, and the loop is in its select.
C9_Witness ==
    \E a \in Failed, b \in Requests \ Failed :
        /\ pc[TaskOf(a)] = "hung"
        /\ IDOf(a) # IDOf(b)
        /\ pc[TaskOf(b)] = "done" /\ ret[TaskOf(b)] = "nil"
        /\ enqueued[reqCtx[b].session] = <<Resp(b)>>
        /\ pc[Dispatcher] = "select"

\* The middleware list a task holds after handleRequest's append: a view of the
\* global slice's backing array, or its own array.
MwsOf(r) ==
    IF mws[r].shared THEN SubSeq(globalMiddlewares.array, 1, mws[r].len)
    ELSE mws[r].own

\* C11: the middleware list a task is about to wrap is the global middlewares
\* followed by the middlewares registered for its own request's ID, whatever
\* the other tasks do.
C11_OwnChain ==
    \A r \in Requests :
        pc[TaskOf(r)] = "wrapHandlers"
        => MwsOf(r) = Globals \o middlewaresMapper[IDOf(r)]

LoopNext ==
    \/ \E p \in Loops \cup Closers : Sess(p) = Served /\ p[3] <= 1 /\ CloseDo(p)
    \/ \E p \in Loops \cup Closers : Sess(p) = Served /\ p[3] <= 1 /\ CloseClosed(p)
    \/ \E p \in Loops \cup Closers : Sess(p) = Served /\ p[3] <= 1 /\ CloseReqQueue(p)
    \/ \E p \in Loops \cup Closers : Sess(p) = Served /\ p[3] <= 1 /\ CloseRespQueue(p)
    \/ ReadLoopUnpack(Served)
    \/ ReadLoopBreak(Served)
    \/ ReadLoopPush(Served)
    \/ RecvReq(Served)
    \/ WriteLoopRecv(Served)
    \/ WriteLoopPack(Served)
    \/ WriteLoopWrite(Served)
    \/ \E p \in Senders : Sess(p) = Served /\ p[3] = 1 /\ SendResp(p, Served)

LoopSpec == Init /\ [][LoopNext]_vars

\* C13: a loop function that has returned has returned for a terminal reason
\* and has left the session closed: the signal fired and both queues closed;
\* and from its terminal error on, the read loop calls Unpack no more and the
\* write loop writes no more.
C13_LoopExitCloses ==
    /\ [](\A p \in Loops :
            pc[p] = "done"
            => /\ AllClosed(Sess(p))
               /\ ret[p] \in {"unpack", "write", "deadline", "queueClosed"})
    /\ [][\A s \in Sessions :
            /\ ret[ReadLoopOf(s)] # "none"
               => /\ unpackCalls'[s] = unpackCalls[s]
                  /\ conn'[s].unpacked = conn[s].unpacked
            /\ ret[WriteLoopOf(s)] # "none"
               => conn'[s].written = conn[s].written]_vars

\* The read loop has returned after an unpack error and the write loop after a
\* write error, with entries left unwritten.
C13_Witness ==
    /\ pc[ReadLoopOf(Served)] = "done" /\ ret[ReadLoopOf(Served)] = "unpack"
    /\ pc[WriteLoopOf(Served)] = "done" /\ ret[WriteLoopOf(Served)] = "write"
    /\ conn[Served].written = <<>> /\ enqueued[Served] = <<1>>

\* A router with one handler, serving requests of one session, some of them
\* with a nil message, while the session may be closed and the router stopped.
DispatchNext ==
    \/ handlerMapper[1] = Nil /\ register(1, HandlerOf(1), <<>>)
    \/ consumeRequestStart
    \/ \E p \in Stoppers : p[3] = 1 /\ stop(p)
    \/ consumeRequestStop
    \/ consumeRequestRecv
    \/ \E r \in Requests, id \in {0, 1} : Feed(r, Served, id)
    \/ \E r \in Requests : handleRequest(r)
    \/ \E r \in Requests, o \in {"resp", "err", "both"} : handleWrapped(r, o)
    \/ \E r \in Requests : SendResp(TaskOf(r), reqCtx[r].session)
    \/ \E p \in Closers : Sess(p) = Served /\ p[3] = 1 /\ CloseDo(p)
    \/ \E p \in Closers : Sess(p) = Served /\ p[3] = 1 /\ CloseClosed(p)
    \/ \E p \in Closers : Sess(p) = Served /\ p[3] = 1 /\ CloseReqQueue(p)
    \/ \E p \in Closers : Sess(p) = Served /\ p[3] = 1 /\ CloseRespQueue(p)

DispatchSpec == RouterInit /\ [][DispatchNext]_vars

\* C14: the dispatch loop, taking a request context whose session's closed
\* signal has fired or whose message is nil, spawns no task and is back in its
\* select, and spawns one otherwise; a skipped request stays skipped, no handler
\* or middleware runs for it and no response of it is enqueued.
C14_SkipClosedOrNil ==
    /\ [](\A r \in Requests :
            /\ pc[TaskOf(r)] = "skipped"
               => /\ trace[r] = <<>>
                  /\ handler[r] = Nil /\ mws[r].len = 0
                  /\ \A s \in Sessions : Count(enqueued[s], Resp(r)) = 0
            /\ pc[TaskOf(r)] \notin {"idle", "skipped"} => reqCtx[r].reqMsg # 0)
    /\ [][\A r \in Requests :
            LET p == TaskOf(r) IN
            /\ (pc[p] = "idle" /\ pc'[p] # "idle")
               => /\ pc'[Dispatcher] = "select"
                  /\ pc'[p] = IF closed[reqCtx'[r].session] \/ reqCtx'[r].reqMsg = 0
                              THEN "skipped" ELSE "handleRequest"
            /\ pc[p] = "skipped" => pc'[p] = "skipped"]_vars

\* One request was skipped for its nil message while the session was open, the
\* next for its closed session, and the loop is in its select.
C14_Witness ==
    /\ pc[TaskOf(1)] = "skipped" /\ reqCtx[1].reqMsg = 0
    /\ pc[TaskOf(2)] = "skipped" /\ reqCtx[2].reqMsg # 0 /\ closed[reqCtx[2].session]
    /\ pc[Dispatcher] = "select"

\* C15: a task whose handler returned an error is done without a response of
\* its request on any queue, an entry returned with the error included; the
\* step in which a handler returns an error, and the step in which SendResp
\* fails, change nothing of the sessions, of the dispatch loop or of the other
\* tasks; and the dispatch loop has returned only if stop() was called or the
\* pending queue is closed.
C15_HandlerErrorIsolated ==
    /\ [](/\ \A r \in Requests :
                ret[TaskOf(r)] = "handleErr"
                => /\ pc[TaskOf(r)] = "done"
                   /\ \A s \in Sessions : Count(enqueued[s], Resp(r)) = 0
          /\ pc[Dispatcher] # "panic"
          /\ pc[Dispatcher] = "done" => (stopped \/ reqCtxQueue.closed))
    /\ [][\A r \in Requests :
            LET p == TaskOf(r) IN
            /\ \A o \in {"err", "both"} :
                  handleWrapped(r, o) => (ret'[p] = "handleErr" /\ msg'[p] = msg[p])
            /\ (ret[p] = "none" /\ ret'[p] \in {"handleErr", "err"})
               => /\ pc'[p] = "done"
                  /\ sessionVars' = sessionVars
                  /\ pc'[Dispatcher] = pc[Dispatcher]
                  /\ <<stopped, reqCtxQueue>>' = <<stopped, reqCtxQueue>>
                  /\ \A q \in Requests \ {r} :
                        /\ pc'[TaskOf(q)] = pc[TaskOf(q)]
                        /\ ret'[TaskOf(q)] = ret[TaskOf(q)]]_vars

\* A handler returned an error while the session was open, the SendResp of the
\* other request failed on the closed session, and the loop, not stopped, is in
\* its select.
C15_Witness ==
    /\ ret[TaskOf(1)] = "handleErr" /\ pc[TaskOf(1)] = "done"
    /\ ret[TaskOf(2)] = "err" /\ pc[TaskOf(2)] = "done"
    /\ pc[Dispatcher] = "select" /\ ~stopped

\* A router with one handler, fed with requests of one open session, and the
\* callers of stop(). The select takes its stop branch once that stays ready.
StopNext ==
    \/ handlerMapper[1] = Nil /\ register(1, HandlerOf(1), <<>>)
    \/ consumeRequestStart
    \/ \E p \in Stoppers : stop(p)
    \/ consumeRequestStop
    \/ consumeRequestRecv
    \/ \E r \in Requests : Feed(r, Served, 1)
    \/ \E r \in Requests : handleRequest(r)
    \/ \E r \in Requests, o \in {"resp", "nil"} : handleWrapped(r, o)
    \/ \E r \in Requests : SendResp(TaskOf(r), reqCtx[r].session)

StopSpec == RouterInit /\ [][StopNext]_vars /\ WF_vars(consumeRequestStop)

\* The calls of stop() that faulted.
StopFaults == {p \in Stoppers : pc[p] = "panic"}

\* C16: once stop() was called on a running dispatch loop, the loop returns with
\* the pending queue closed (unless a second stop() faults first), whatever
\* requests arrive meanwhile; a loop that has returned stays returned, takes
\* nothing more from the queue and spawns no task.
C16_StopEnds ==
    /\ (stopped /\ pc[Dispatcher] = "select")
          ~> ((pc[Dispatcher] = "done" /\ reqCtxQueue.closed) \/ StopFaults # {})
    /\ [](pc[Dispatcher] = "done" => (stopped /\ reqCtxQueue.closed))
    /\ [][pc[Dispatcher] = "done"
            => /\ pc'[Dispatcher] = "done"
               /\ reqCtxQueue' = reqCtxQueue
               /\ \A r \in Requests :
                     pc[TaskOf(r)] = "idle" => pc'[TaskOf(r)] = "idle"]_vars

\* The loop has returned after one stop(), with a request still pending in the
\* closed queue and its task never spawned, while an earlier request was served.
C16_Witness ==
    /\ pc[Dispatcher] = "done" /\ reqCtxQueue.closed
    /\ StopFaults = {}
    /\ reqCtxQueue.buf = <<2>> /\ pc[TaskOf(2)] = "idle"
    /\ pc[TaskOf(1)] = "done"

\* C17: the first call of stop() fires the stop signal and returns; every call
\* made when the signal has fired faults, so of all calls at most one returns.
C17_StopNotIdempotent ==
    /\ [](/\ Cardinality({p \in Stoppers : pc[p] = "done"}) <= 1
          /\ StopFaults # {} => stopped)
    /\ [][\A p \in Stoppers :
            (pc[p] = "stop" /\ pc'[p] # "stop")
            => /\ stopped'
               /\ pc'[p] = IF stopped THEN "panic" ELSE "done"]_vars

\* One stop() has returned and a second one has faulted.
C17_Witness ==
    /\ \E p \in Stoppers : pc[p] = "done"
    /\ \E p \in Stoppers : pc[p] = "panic"

\* The session with its write loop, the producers, the callers of Close and the
\* callers of WaitUntilClosed, when the peer sends no frame.
OrderNext ==
    \/ \E p \in Loops \cup Closers : Sess(p) = Served /\ CloseDo(p)
    \/ \E p \in Loops \cup Closers : Sess(p) = Served /\ CloseClosed(p)
    \/ \E p \in Loops \cup Closers : Sess(p) = Served /\ CloseReqQueue(p)
    \/ \E p \in Loops \cup Closers : Sess(p) = Served /\ CloseRespQueue(p)
    \/ \E p \in Waiters : Sess(p) = Served /\ WaitUntilClosed(p)
    \/ ReadLoopBreak(Served)
    \/ WriteLoopRecv(Served)
    \/ WriteLoopPack(Served)
    \/ WriteLoopWrite(Served)
    \/ \E p \in Senders : Sess(p) = Served /\ SendResp(p, Served)

OrderSpec == Init /\ [][OrderNext]_vars

\* C18: the outbound queue is closed only if the inbound queue is, and that
\* only if the closed signal has fired; so when a SendResp has failed the signal
\* has fired and a caller of WaitUntilClosed can return; and when a call of
\* Close has returned all three hold.
C18_CloseOrder ==
    \A s \in Sessions :
        /\ respQueue[s].closed => reqQueue[s].closed
        /\ reqQueue[s].closed => closed[s]
        /\ (\E p \in SendersOf(s) : ret[p] = "err")
           => /\ closed[s]
              /\ \A w \in Waiters : (Sess(w) = s /\ pc[w] = "Wait") => ENABLED WaitUntilClosed(w)
        /\ \A p \in CloseCallers(s) : pc[p] = "done" => AllClosed(s)

\* A SendResp has failed while a caller of WaitUntilClosed had not yet
\* returned, and a Close issued after the closing one has returned.
C18_Witness ==
    /\ \E p \in SendersOf(Served) : ret[p] = "err"
    /\ \E w \in Waiters : Sess(w) = Served /\ pc[w] = "Wait"
    /\ \A p \in CloseCallers(Served) : pc[p] = "done"

\* The session when packing and writing never fail: the steps of the write loop
\* are its receive, a Pack that succeeds and a Write that succeeds.
PackSucceeds(s) == WriteLoopPack(s) /\ pc'[WriteLoopOf(s)] = "Write"
WriteSucceeds(s) == WriteLoopWrite(s) /\ pc'[WriteLoopOf(s)] = "Recv"
WriteLoopStep(s) == WriteLoopRecv(s) \/ PackSucceeds(s) \/ WriteSucceeds(s)

DrainNext ==
    \/ \E p \in Loops \cup Closers : Sess(p) = Served /\ CloseDo(p)
    \/ \E p \in Loops \cup Closers : Sess(p) = Served /\ CloseClosed(p)
    \/ \E p \in Loops \cup Closers : Sess(p) = Served /\ CloseReqQueue(p)
    \/ \E p \in Loops \cup Closers : Sess(p) = Served /\ CloseRespQueue(p)
    \/ ReadLoopBreak(Served)
    \/ WriteLoopRecv(Served)
    \/ PackSucceeds(Served)
    \/ WriteSucceeds(Served)
    \/ \E p \in Senders : Sess(p) = Served /\ SendResp(p, Served)

\* The write loop is a goroutine of its own: it runs when it can.
DrainSpec == Init /\ [][DrainNext]_vars /\ WF_vars(WriteLoopStep(Served))

\* C19: when packing and writing never fail, every entry a SendResp has put on
\* the queue is eventually written, the entries buffered when the session was
\* closed included; and the write loop leaves on the closed queue only when the
\* queue is drained and everything enqueued is written.
C19_EnqueuedIsWritten ==
    /\ \A e \in 1..NumSenders :
          (Count(enqueued[Served], e) = 1) ~> (Count(conn[Served].written, e) = 1)
    /\ [](\A s \in Sessions :
            ret[WriteLoopOf(s)] = "queueClosed"
            => /\ respQueue[s].buf = <<>>
               /\ conn[s].written = enqueued[s])

\* Both entries enqueued were written before the write loop returned on its
\* queue closed by an external Close.
C19_Witness ==
    /\ conn[Served].written = <<1, 2>>
    /\ pc[WriteLoopOf(Served)] = "done"
    /\ ret[WriteLoopOf(Served)] = "queueClosed"
    /\ \E p \in Closers : Sess(p) = Served /\ pc[p] = "done"

\* The router's registry: the handlers, the per-ID middlewares, the global
\* middleware list and the not-found handler.
Registry == <<handlerMapper, middlewaresMapper, Globals, globalMiddlewares.len, notFoundHandler>>

\* C20: no step of the dispatching (feeding, handleRequest, wrapHandlers and the
\* handler's call, SendResp) changes the registry; only the steps of the setup,
\* register, registerMiddleware and setNotFoundHandler, do.
C20_RegistryFrame ==
    [][/\ pc[Dispatcher] # "setup" => Registry' = Registry
       /\ \A r \in Requests :
             (pc'[TaskOf(r)] # pc[TaskOf(r)]) => Registry' = Registry]_vars

\* Two requests were handled, their appends having written into the spare slot
\* of the global slice's backing array, and the three global middlewares are as
\* registered.
C20_Witness ==
    /\ Globals = <<Global(1), Global(2), Global(3)>>
    /\ Len(globalMiddlewares.array) = 4 /\ globalMiddlewares.array[4] # Nil
    /\ \A r \in Requests : r <= 2 => pc[TaskOf(r)] = "done"

====
